---- MODULE Spec2Model ----
(***************************************************************************)
(* Model of the TESmart HDMI switch client, src/tesmart-commands.go:       *)
(* the 6-byte frame codec, the public calls, send, the read loop and the   *)
(* reconnect goroutine started by connect.                                 *)
(*                                                                         *)
(* Spec is the connection model (calls, read loop, reconnect, a device     *)
(* that answers, pushes and dies), FairSpec adds the scheduler's fairness, *)
(* ClientSpec goes through every call and argument on a connection that    *)
(* stays up, CodecSpec decodes single frames.                              *)
(*                                                                         *)
(* The two other variants of the client are modelled next to it, each      *)
(* with its own state: CtxSpec (CtxFairSpec with fairness) is the context  *)
(* variant, src/unnamed/part_000 (cancellation, ping loop, observer        *)
(* callback), DlSpec the read-deadline variant, src/unnamed/part_001.      *)
(*                                                                         *)
(* Go slices are indexed from 0, TLA+ sequences from 1: byte k of a frame  *)
(* in the source is element k+1 here.                                      *)
(***************************************************************************)
EXTENDS Integers, Sequences, FiniteSets, TLC

(* ------------------------------ bounds --------------------------------- *)

\* Number of public calls the client issues.
MaxCalls == 2

\* Number of sockets ever dialed (the first one included).
MaxConn == 2

\* Number of frames the device sends without being asked (in the variants
\* it bounds the frames waiting unread on a socket when another is sent).
MaxPush == 1

(* --------------------------- wire protocol ----------------------------- *)

SWITCH_INPUT == <<170, 187, 3, 1, 0, 238>>

SET_LED_TIMEOUT == <<170, 187, 3, 3, 0, 238>>

MUTE_BUZZER == <<170, 187, 3, 2, 0, 238>>

UNMUTE_BUZZER == <<170, 187, 3, 2, 1, 238>>

ENABLE_AUTO_INPUT_DETECTION == <<170, 187, 3, 129, 1, 238>>

DISABLE_AUTO_INPUT_DETECTION == <<170, 187, 3, 129, 0, 238>>

GET_CURRENT_INPUT == <<170, 187, 3, 16, 0, 238>>

OUTPUT == <<170, 187, 3, 17>>

\* The values of a Go byte.
Byte == 0 .. 255

\* byte(input): conversion of an int to uint8 keeps the low 8 bits.
ToByte(n) == n % (2 ^ 8)

\* A mutant of injectInputToPayload: the input lands one byte too far.
injectInputToPayload_OffByOne(payload, input) ==
    [i \in 1 .. 6 |->
        IF i = 6 THEN input ELSE IF i <= Len(payload) THEN payload[i] ELSE 0]

\* make([]byte, 6); copy(command, payload); command[4] = input
injectInputToPayload(payload, input) ==
    [i \in 1 .. 6 |->
        IF i = 5 THEN input ELSE IF i <= Len(payload) THEN payload[i] ELSE 0]

\* A mutant of isValidOutput: the checksum difference is not taken in uint8.
isValidOutput_NoWrap(output) ==
    /\ output[1] = 170
    /\ output[2] = 187
    /\ output[3] = 3
    /\ output[4] = 17
    /\ output[6] - output[5] = 22

\* output[5]-output[4] is a uint8 subtraction: it wraps modulo 256.
isValidOutput(output) ==
    /\ output[1] = 170
    /\ output[2] = 187
    /\ output[3] = 3
    /\ output[4] = 17
    /\ (output[6] - output[5]) % (2 ^ 8) = 22

\* What a call returns: (value, error).
Ret(v, e) == [value |-> v, err |-> e]

extractInput(response) ==
    IF isValidOutput(response)
    THEN Ret(response[5] + 1, "nil")
    ELSE Ret(0, "invalid response")

\* isValidOutput of the context variant, which checks the length first.
isValidOutputLen(output) ==
    /\ Len(output) = 6
    /\ output[1] = 170
    /\ output[2] = 187
    /\ output[3] = 3
    /\ output[4] = 17
    /\ (output[6] - output[5]) % (2 ^ 8) = 22

\* ExtractInput of the context variant.
ExtractInput(response) ==
    IF isValidOutputLen(response)
    THEN Ret(response[5] + 1, "nil")
    ELSE Ret(0, "invalid response")

(* ----------------------------- public calls ---------------------------- *)

AwaitingOps == {"SwitchInput", "SetLedTimeout", "GetCurrentInput"}

FireAndForgetOps ==
    {"MuteBuzzer", "UnmuteBuzzer",
     "EnableAutoInputDetection", "DisableAutoInputDetection"}

\* The arguments the client passes: both ends of each range, a value inside
\* it, and values outside it on either side.
SwitchInputArgs == {-1, 0, 1, 3, 16, 17}

SetLedTimeoutArgs == {-1, 0, 5, 30, 31}

\* The calls the client may issue: <<operation, argument>> (0 when the
\* operation takes none).
Calls ==
    ({"SwitchInput"} \X SwitchInputArgs)
    \cup ({"SetLedTimeout"} \X SetLedTimeoutArgs)
    \cup ((FireAndForgetOps \cup {"GetCurrentInput"}) \X {0})

\* The parameter check at the head of SwitchInput and SetLedTimeout.
Rejects(op, input) ==
    CASE op = "SwitchInput" -> input < 1 /\ input > 16
      [] op = "SetLedTimeout" -> input < 0 /\ input > 30
      [] OTHER -> FALSE

ValidationError(op) ==
    IF op = "SwitchInput" THEN "invalid input value"
    ELSE "invalid LED timeout value"

\* The frame each public call hands to send.
Command(op, input) ==
    CASE op = "SwitchInput" -> injectInputToPayload(SWITCH_INPUT, ToByte(input))
      [] op = "SetLedTimeout" -> injectInputToPayload(GET_CURRENT_INPUT, ToByte(input))
      [] op = "MuteBuzzer" -> MUTE_BUZZER
      [] op = "UnmuteBuzzer" -> UNMUTE_BUZZER
      [] op = "EnableAutoInputDetection" -> ENABLE_AUTO_INPUT_DETECTION
      [] op = "DisableAutoInputDetection" -> DISABLE_AUTO_INPUT_DETECTION
      [] OTHER -> GET_CURRENT_INPUT

(* ------------------------------ the device ----------------------------- *)

\* The status response for zero-based input idx: the last two bytes are the
\* input and the input + 0x16.
Status(idx) == <<170, 187, 3, 17, idx, (idx + 22) % (2 ^ 8)>>

\* The inputs the device may report as current when it is asked, or on its
\* own.
DeviceInputs == {2}

\* A frame on the way to the client: its six bytes, and the call whose
\* command the device was answering (0: sent unasked).
Frame(b, re) == [bytes |-> b, re |-> re]

NoFrame == Frame(<<>>, 0)

\* What the device may answer to a command: a switch command gets the
\* status of the input it names (one-based on the way in, zero-based on the
\* way out), a query gets the current input, the rest get nothing.
DeviceReplies(cmd) ==
    CASE cmd[4] = 1 -> {Status((cmd[5] - 1) % (2 ^ 8))}
      [] cmd[4] = 16 -> {Status(i) : i \in DeviceInputs}
      [] OTHER -> {}

\* What the device may send unasked: the status of its current input.
PushFrames == {Status(i) : i \in DeviceInputs}

(* ------------------------------- state --------------------------------- *)

VARIABLES
    t,           \* the tesmartSwitch struct: conn and the four channel fields
    sock,        \* every socket dialed: its status and the frames inbound on it
    responsesQ,  \* the buffer of each channel made for t.responses
    ResponsesQ,  \* the buffer of each channel made for t.Responses
    errQ,        \* the buffer of each channel made for t.err
    swQ,         \* the buffer of each channel made for t.sw
    loopPc,      \* where receiveLoop is
    loopFrame,   \* receiveLoop's local response
    supPc,       \* where the error goroutine of connect, then the connect it starts, is
    callerPc,    \* where the calling goroutine is
    call,        \* the call in progress (and which call came before it)
    callCh,      \* the channel a blocked caller is parked on
    result,      \* what the last call returned
    wire,        \* the last frame a Write accepted: on which socket, for which call,
                 \* and whether connect had run to its end by then
    nPush,       \* frames the device has sent unasked
    probe,       \* codec check: the frame under test
    decoded,     \* codec check: what extractInput and ExtractInput returned for it
    ctxT,        \* context variant: the tesmartSwitch struct (conn, connectionCtx, receiverFunc)
    ctxSock,     \* context variant: the socket and the frames inbound on it
    newPc,       \* context variant: where NewTesmartSwitch is
    recvPc,      \* context variant: where receiveLoop is
    recvFrame,   \* context variant: receiveLoop's local response
    pingPc,      \* context variant: where checkConnectionLoop is
    afterCancel, \* context variant: frames handed to receiverFunc since the cancel
    ctxSends,    \* context variant: calls of send so far
    dlT,         \* read-deadline variant: the tesmartSwitch struct (conn, responses, err)
    dlSock,      \* read-deadline variant: every socket dialed
    dlResponsesQ, \* read-deadline variant: the buffer of each channel made for t.responses
    dlErrQ,      \* read-deadline variant: the buffer of each channel made for t.err
    dlLoopPc,    \* read-deadline variant: where receiveLoop is
    dlLoopFrame, \* read-deadline variant: receiveLoop's local response
    dlSupPc,     \* read-deadline variant: where the goroutine of connect is
    dlCallerPc,  \* read-deadline variant: where the calling goroutine is
    dlCallCh,    \* read-deadline variant: the channel a blocked caller is parked on
    dlCalls      \* read-deadline variant: calls so far

vars ==
    <<t, sock, responsesQ, ResponsesQ, errQ, swQ, loopPc, loopFrame, supPc,
      callerPc, call, callCh, result, wire, nPush, probe, decoded,
      ctxT, ctxSock, newPc, recvPc, recvFrame, pingPc, afterCancel, ctxSends,
      dlT, dlSock, dlResponsesQ, dlErrQ, dlLoopPc, dlLoopFrame, dlSupPc,
      dlCallerPc, dlCallCh, dlCalls>>

Gens == 1 .. MaxConn

\* Every channel of connect is made with capacity 1.
ChanCap == 1

NoCall == [id |-> 0, op |-> "none", arg |-> 0, sendErr |-> "none", prevOp |-> "none"]

NoResult == [id |-> 0, op |-> "none", arg |-> 0, frame |-> NoFrame,
             value |-> 0, err |-> "none"]

NoWire == [bytes |-> <<>>, sock |-> 0, id |-> 0, watching |-> FALSE]

NoSock == [status |-> "none", inbound |-> <<>>]

\* The codec check before extractInput has run.
NotDecoded == [main |-> Ret(0, "none"), ctx |-> Ret(0, "none")]

\* The state NewTesmartSwitch returns in when its dial succeeds: t.conn is
\* the first socket, the four channels are fresh, receiveLoop and the error
\* goroutine are started.
SystemInit ==
    /\ t = [conn |-> 1, responses |-> 1, Responses |-> 1, err |-> 1, sw |-> 1]
    /\ sock = [s \in Gens |-> IF s = 1 THEN [status |-> "open", inbound |-> <<>>] ELSE NoSock]
    /\ responsesQ = [g \in Gens |-> <<>>]
    /\ ResponsesQ = [g \in Gens |-> <<>>]
    /\ errQ = [g \in Gens |-> <<>>]
    /\ swQ = [g \in Gens |-> <<>>]
    /\ loopPc = "read"
    /\ loopFrame = NoFrame
    /\ supPc = "watch"
    /\ callerPc = "idle"
    /\ call = NoCall
    /\ callCh = 0
    /\ result = NoResult
    /\ wire = NoWire
    /\ nPush = 0

\* The context variant before NewTesmartSwitch is called.
CtxStart ==
    /\ ctxT = [conn |-> 0, done |-> FALSE, receiverFunc |-> "nil"]
    /\ ctxSock = NoSock
    /\ newPc = "connect"
    /\ recvPc = "none"
    /\ recvFrame = <<>>
    /\ pingPc = "none"
    /\ afterCancel = 0
    /\ ctxSends = 0

\* The read-deadline variant when NewTesmartSwitch returns: the first
\* socket, fresh channels, the goroutine of connect and receiveLoop started.
DlStart ==
    /\ dlT = [conn |-> 1, responses |-> 1, err |-> 1]
    /\ dlSock = [s \in Gens |-> IF s = 1 THEN [status |-> "open", inbound |-> <<>>]
                                ELSE NoSock]
    /\ dlResponsesQ = [g \in Gens |-> <<>>]
    /\ dlErrQ = [g \in Gens |-> <<>>]
    /\ dlLoopPc = "read"
    /\ dlLoopFrame = <<>>
    /\ dlSupPc = "watch"
    /\ dlCallerPc = "idle"
    /\ dlCallCh = 0
    /\ dlCalls = 0

Init ==
    /\ SystemInit
    /\ probe = <<>>
    /\ decoded = NotDecoded
    /\ CtxStart
    /\ DlStart

sysVars ==
    <<t, sock, responsesQ, ResponsesQ, errQ, swQ, loopPc, loopFrame, supPc,
      callerPc, call, callCh, result, wire, nPush>>

codecVars == <<probe, decoded>>

ctxVars == <<ctxT, ctxSock, newPc, recvPc, recvFrame, pingPc, afterCancel, ctxSends>>

dlVars ==
    <<dlT, dlSock, dlResponsesQ, dlErrQ, dlLoopPc, dlLoopFrame, dlSupPc,
      dlCallerPc, dlCallCh, dlCalls>>

\* What the steps of src/tesmart-commands.go leave alone.
restVars == <<codecVars, ctxVars, dlVars>>

\* What the steps of the context variant leave alone.
ctxRest == <<sysVars, codecVars, dlVars>>

\* What the steps of the read-deadline variant leave alone.
dlRest == <<sysVars, codecVars, ctxVars>>

(* ------------------------------ channels ------------------------------- *)

Full(q) == Len(q) >= ChanCap

(* ------------------------------ the caller ----------------------------- *)

\* What the call in progress returns, and the caller is idle again.
Return(frame, ret) ==
    /\ result' = [id |-> call.id, op |-> call.op, arg |-> call.arg,
                  frame |-> frame, value |-> ret.value, err |-> ret.err]
    /\ callerPc' = "idle"
    /\ callCh' = 0

\* The head of a public call: the parameter check, then the command is
\* built and handed to send.
Call(op, input) ==
    /\ callerPc = "idle"
    /\ call.id < MaxCalls
    /\ call' = [id |-> call.id + 1, op |-> op, arg |-> input, sendErr |-> "none",
                 prevOp |-> call.op]
    /\ IF Rejects(op, input)
       THEN /\ result' = [id |-> call.id + 1, op |-> op, arg |-> input,
                          frame |-> NoFrame, value |-> 0, err |-> ValidationError(op)]
            /\ callerPc' = "idle"
       ELSE /\ result' = NoResult
            /\ callerPc' = "write"
    /\ UNCHANGED <<t, sock, responsesQ, ResponsesQ, errQ, swQ, loopPc, loopFrame,
                   supPc, callCh, wire, nPush>>
    /\ UNCHANGED restVars

\* What t.conn.Write may do on a socket in each status: on an open socket
\* the six bytes go out; on one whose peer is gone they may still be
\* accepted locally, or the write fails; on a closed one it fails.
WriteOutcomes(status) ==
    CASE status = "open" -> {"sent"}
      [] status = "broken" -> {"lost", "error"}
      [] OTHER -> {"error"}

\* After send returned e: SwitchInput, SetLedTimeout and GetCurrentInput
\* drop send's result and go on to receive from t.responses; the other four
\* return it.
AfterSend(e) ==
    IF call.op \in AwaitingOps
    THEN /\ callerPc' = "await"
         /\ call' = [call EXCEPT !.sendErr = e]
         /\ UNCHANGED <<result, callCh>>
    ELSE /\ Return(NoFrame, Ret(0, e))
         /\ call' = [call EXCEPT !.sendErr = e]

\* send, up to and including t.conn.Write(command). A write error makes send
\* return it. (Write returns a count short of 6 only together with an
\* error, so the bytesSent != 6 branch is not taken on its own.)
SendWrite ==
    /\ callerPc = "write"
    /\ LET s == t.conn
           cmd == Command(call.op, call.arg)
       IN \E o \in WriteOutcomes(sock[s].status) :
            \E reply \in (IF o = "sent" THEN DeviceReplies(cmd) ELSE {}) \cup {<<>>} :
              IF o = "error"
              THEN /\ AfterSend("write error")
                   /\ UNCHANGED <<sock, wire>>
              ELSE /\ wire' = [bytes |-> cmd, sock |-> IF o = "sent" THEN s ELSE 0,
                               id |-> call.id, watching |-> supPc = "watch"]
                   /\ sock' = IF reply = <<>> THEN sock
                              ELSE [sock EXCEPT ![s].inbound = Append(@, Frame(reply, call.id))]
                   /\ callerPc' = "marker"
                   /\ UNCHANGED <<call, result, callCh>>
    /\ UNCHANGED <<t, responsesQ, ResponsesQ, errQ, swQ, loopPc, loopFrame, supPc, nPush>>
    /\ UNCHANGED restVars

\* send, t.sw <- true on the channel t.sw names now, when it has room; send
\* then returns nil.
SendMarker ==
    /\ callerPc = "marker"
    /\ ~Full(swQ[t.sw])
    /\ swQ' = [swQ EXCEPT ![t.sw] = Append(@, TRUE)]
    /\ AfterSend("nil")
    /\ UNCHANGED <<t, sock, responsesQ, ResponsesQ, errQ, loopPc, loopFrame, supPc,
                   wire, nPush>>
    /\ UNCHANGED restVars

\* send, t.sw <- true when the channel is full: the goroutine parks on it.
SendMarkerBlock ==
    /\ callerPc = "marker"
    /\ Full(swQ[t.sw])
    /\ callerPc' = "markerBlocked"
    /\ callCh' = t.sw
    /\ UNCHANGED <<t, sock, responsesQ, ResponsesQ, errQ, swQ, loopPc, loopFrame,
                   supPc, call, result, wire, nPush>>
    /\ UNCHANGED restVars

\* The parked t.sw <- true goes through once the channel has room.
SendMarkerResume ==
    /\ callerPc = "markerBlocked"
    /\ ~Full(swQ[callCh])
    /\ swQ' = [swQ EXCEPT ![callCh] = Append(@, TRUE)]
    /\ AfterSend("nil")
    /\ UNCHANGED <<t, sock, responsesQ, ResponsesQ, errQ, loopPc, loopFrame, supPc,
                   wire, nPush>>
    /\ UNCHANGED restVars

\* A mutant of Await: the receive gives up when no frame is there.
Await_OrTimeout ==
    /\ callerPc = "await"
    /\ IF responsesQ[t.responses] # <<>>
       THEN /\ Return(Head(responsesQ[t.responses]),
                      extractInput(Head(responsesQ[t.responses]).bytes))
            /\ responsesQ' = [responsesQ EXCEPT ![t.responses] = Tail(@)]
       ELSE /\ Return(NoFrame, Ret(0, "timeout"))
            /\ UNCHANGED responsesQ
    /\ UNCHANGED <<t, sock, ResponsesQ, errQ, swQ, loopPc, loopFrame, supPc, call,
                   wire, nPush>>
    /\ UNCHANGED restVars

\* extractInput(<-t.responses) when the channel t.responses names now holds
\* a frame.
Await ==
    /\ callerPc = "await"
    /\ responsesQ[t.responses] # <<>>
    /\ Return(Head(responsesQ[t.responses]),
              extractInput(Head(responsesQ[t.responses]).bytes))
    /\ responsesQ' = [responsesQ EXCEPT ![t.responses] = Tail(@)]
    /\ UNCHANGED <<t, sock, ResponsesQ, errQ, swQ, loopPc, loopFrame, supPc, call,
                   wire, nPush>>
    /\ UNCHANGED restVars

\* <-t.responses when the channel is empty: the goroutine parks on it.
AwaitBlock ==
    /\ callerPc = "await"
    /\ responsesQ[t.responses] = <<>>
    /\ callerPc' = "awaitBlocked"
    /\ callCh' = t.responses
    /\ UNCHANGED <<t, sock, responsesQ, ResponsesQ, errQ, swQ, loopPc, loopFrame,
                   supPc, call, result, wire, nPush>>
    /\ UNCHANGED restVars

\* The parked receive gets the frame sent on its channel.
AwaitResume ==
    /\ callerPc = "awaitBlocked"
    /\ responsesQ[callCh] # <<>>
    /\ Return(Head(responsesQ[callCh]), extractInput(Head(responsesQ[callCh]).bytes))
    /\ responsesQ' = [responsesQ EXCEPT ![callCh] = Tail(@)]
    /\ UNCHANGED <<t, sock, ResponsesQ, errQ, swQ, loopPc, loopFrame, supPc, call,
                   wire, nPush>>
    /\ UNCHANGED restVars

\* The code that uses the client takes a frame from t.Responses.
ObserverReceive ==
    /\ ResponsesQ[t.Responses] # <<>>
    /\ ResponsesQ' = [ResponsesQ EXCEPT ![t.Responses] = Tail(@)]
    /\ UNCHANGED <<t, sock, responsesQ, errQ, swQ, loopPc, loopFrame, supPc,
                   callerPc, call, callCh, result, wire, nPush>>
    /\ UNCHANGED restVars

(* ----------------------------- receiveLoop ----------------------------- *)

\* t.conn.Read(response) returns a frame.
LoopRead ==
    /\ loopPc = "read"
    /\ sock[t.conn].inbound # <<>>
    /\ loopFrame' = Head(sock[t.conn].inbound)
    /\ sock' = [sock EXCEPT ![t.conn].inbound = Tail(@)]
    /\ loopPc' = "select"
    /\ UNCHANGED <<t, responsesQ, ResponsesQ, errQ, swQ, supPc, callerPc, call,
                   callCh, result, wire, nPush>>
    /\ UNCHANGED restVars

\* t.conn.Read(response) returns an error: t.err <- err; break.
LoopReadError ==
    /\ loopPc = "read"
    /\ sock[t.conn].status \in {"broken", "closed"}
    /\ ~Full(errQ[t.err])
    /\ errQ' = [errQ EXCEPT ![t.err] = Append(@, "err")]
    /\ loopPc' = "done"
    /\ UNCHANGED <<t, sock, responsesQ, ResponsesQ, swQ, loopFrame, supPc, callerPc,
                   call, callCh, result, wire, nPush>>
    /\ UNCHANGED restVars

\* A mutant of LoopSelect: the marker is looked at and left in place.
LoopSelect_KeepMarker ==
    /\ loopPc = "select"
    /\ loopPc' = IF swQ[t.sw] # <<>> THEN "toResponses" ELSE "toObserver"
    /\ UNCHANGED <<t, sock, responsesQ, ResponsesQ, errQ, swQ, loopFrame, supPc,
                   callerPc, call, callCh, result, wire, nPush>>
    /\ UNCHANGED restVars

\* select { case <-t.sw: ... default: ... }: which branch is taken.
LoopSelect ==
    /\ loopPc = "select"
    /\ IF swQ[t.sw] # <<>>
       THEN /\ swQ' = [swQ EXCEPT ![t.sw] = Tail(@)]
            /\ loopPc' = "toResponses"
       ELSE /\ swQ' = swQ
            /\ loopPc' = "toObserver"
    /\ UNCHANGED <<t, sock, responsesQ, ResponsesQ, errQ, loopFrame, supPc,
                   callerPc, call, callCh, result, wire, nPush>>
    /\ UNCHANGED restVars

\* t.responses <- response
LoopDeliver ==
    /\ loopPc = "toResponses"
    /\ ~Full(responsesQ[t.responses])
    /\ responsesQ' = [responsesQ EXCEPT ![t.responses] = Append(@, loopFrame)]
    /\ loopFrame' = NoFrame
    /\ loopPc' = "read"
    /\ UNCHANGED <<t, sock, ResponsesQ, errQ, swQ, supPc, callerPc, call, callCh,
                   result, wire, nPush>>
    /\ UNCHANGED restVars

\* t.Responses <- response
LoopNotify ==
    /\ loopPc = "toObserver"
    /\ ~Full(ResponsesQ[t.Responses])
    /\ ResponsesQ' = [ResponsesQ EXCEPT ![t.Responses] = Append(@, loopFrame)]
    /\ loopFrame' = NoFrame
    /\ loopPc' = "read"
    /\ UNCHANGED <<t, sock, responsesQ, errQ, swQ, supPc, callerPc, call, callCh,
                   result, wire, nPush>>
    /\ UNCHANGED restVars

(* ------------------- connect and its error goroutine ------------------- *)

\* The socket the next successful dial makes.
NextSock == 1 + Cardinality({s \in Gens : sock[s].status # "none"})

\* <-t.err in the goroutine of connect.
WatchError ==
    /\ supPc = "watch"
    /\ errQ[t.err] # <<>>
    /\ errQ' = [errQ EXCEPT ![t.err] = Tail(@)]
    /\ supPc' = "close"
    /\ UNCHANGED <<t, sock, responsesQ, ResponsesQ, swQ, loopPc, loopFrame,
                   callerPc, call, callCh, result, wire, nPush>>
    /\ UNCHANGED restVars

\* A mutant of WatchClose: the faulted socket is left open.
WatchClose_LeavesOpen ==
    /\ supPc = "close"
    /\ supPc' = "dial"
    /\ UNCHANGED <<t, sock, responsesQ, ResponsesQ, errQ, swQ, loopPc, loopFrame,
                   callerPc, call, callCh, result, wire, nPush>>
    /\ UNCHANGED restVars

\* t.conn.Close(); go t.connect(host)
WatchClose ==
    /\ supPc = "close"
    /\ sock' = [sock EXCEPT ![t.conn].status = "closed"]
    /\ supPc' = "dial"
    /\ UNCHANGED <<t, responsesQ, ResponsesQ, errQ, swQ, loopPc, loopFrame,
                   callerPc, call, callCh, result, wire, nPush>>
    /\ UNCHANGED restVars

\* connect, net.Dial: a new socket, or an error that is logged and returned
\* (to nobody: connect runs as a goroutine here).
ConnectDial ==
    /\ supPc = "dial"
    /\ \E ok \in BOOLEAN :
         IF ok
         THEN /\ sock' = [sock EXCEPT ![NextSock] = [status |-> "open", inbound |-> <<>>]]
              /\ supPc' = "assignConn"
         ELSE /\ sock' = sock
              /\ supPc' = "dialFailed"
    /\ UNCHANGED <<t, responsesQ, ResponsesQ, errQ, swQ, loopPc, loopFrame,
                   callerPc, call, callCh, result, wire, nPush>>
    /\ UNCHANGED restVars

\* A mutant of ConnectAssignConn: the new socket is not stored.
ConnectAssignConn_Forgets ==
    /\ supPc = "assignConn"
    /\ supPc' = "makeResponses"
    /\ UNCHANGED <<t, sock, responsesQ, ResponsesQ, errQ, swQ, loopPc, loopFrame,
                   callerPc, call, callCh, result, wire, nPush>>
    /\ UNCHANGED restVars

\* connect, t.conn = conn
ConnectAssignConn ==
    /\ supPc = "assignConn"
    /\ t' = [t EXCEPT !.conn = NextSock - 1]
    /\ supPc' = "makeResponses"
    /\ UNCHANGED <<sock, responsesQ, ResponsesQ, errQ, swQ, loopPc, loopFrame,
                   callerPc, call, callCh, result, wire, nPush>>
    /\ UNCHANGED restVars

\* connect, t.responses = make(...); t.Responses = make(...)
ConnectMakeResponses ==
    /\ supPc = "makeResponses"
    /\ t' = [t EXCEPT !.responses = NextSock - 1, !.Responses = NextSock - 1]
    /\ supPc' = "makeErrSw"
    /\ UNCHANGED <<sock, responsesQ, ResponsesQ, errQ, swQ, loopPc, loopFrame,
                   callerPc, call, callCh, result, wire, nPush>>
    /\ UNCHANGED restVars

\* connect, t.err = make(...); t.sw = make(...); go t.receiveLoop(); go func()
ConnectMakeErrSw ==
    /\ supPc = "makeErrSw"
    /\ t' = [t EXCEPT !.err = NextSock - 1, !.sw = NextSock - 1]
    /\ loopPc' = "read"
    /\ supPc' = "watch"
    /\ UNCHANGED <<sock, responsesQ, ResponsesQ, errQ, swQ, loopFrame, callerPc,
                   call, callCh, result, wire, nPush>>
    /\ UNCHANGED restVars

(* --------------------------- the environment --------------------------- *)

\* The device sends a frame nobody asked for.
DevicePush ==
    /\ nPush < MaxPush
    /\ \E s \in Gens, b \in PushFrames :
         /\ sock[s].status = "open"
         /\ sock' = [sock EXCEPT ![s].inbound = Append(@, Frame(b, 0))]
    /\ nPush' = nPush + 1
    /\ UNCHANGED <<t, responsesQ, ResponsesQ, errQ, swQ, loopPc, loopFrame, supPc,
                   callerPc, call, callCh, result, wire>>
    /\ UNCHANGED restVars

\* The connection dies under the client: reads on it fail from now on. As
\* many deaths happen as there are sockets left to replace the dead one.
Fault ==
    /\ \E s \in Gens :
         /\ s < MaxConn
         /\ sock[s].status = "open"
         /\ sock' = [sock EXCEPT ![s].status = "broken"]
    /\ UNCHANGED <<t, responsesQ, ResponsesQ, errQ, swQ, loopPc, loopFrame, supPc,
                   callerPc, call, callCh, result, wire, nPush>>
    /\ UNCHANGED restVars

(* ---------------------------- specification ---------------------------- *)

\* The steps of the calling goroutine, for a client that issues the calls of cs.
Caller(cs) ==
    \/ \E c \in cs : Call(c[1], c[2])
    \/ SendWrite
    \/ SendMarker
    \/ SendMarkerBlock
    \/ SendMarkerResume
    \/ Await
    \/ AwaitBlock
    \/ AwaitResume

ReceiveLoop ==
    \/ LoopRead
    \/ LoopReadError
    \/ LoopSelect
    \/ LoopDeliver
    \/ LoopNotify

Supervisor ==
    \/ WatchError
    \/ WatchClose
    \/ ConnectDial
    \/ ConnectAssignConn
    \/ ConnectMakeResponses
    \/ ConnectMakeErrSw

\* The client of the connection model issues one call of each code path:
\* one that awaits a reply and one that does not. The calls of a path differ
\* in the command bytes alone, which ClientSpec goes through.
CoreCalls == {<<"GetCurrentInput", 0>>, <<"MuteBuzzer", 0>>}

Next ==
    \/ Caller(CoreCalls)
    \/ ReceiveLoop
    \/ Supervisor
    \/ ObserverReceive
    \/ DevicePush
    \/ Fault

Spec == Init /\ [][Next]_vars

\* The client of the parameter model issues every call of Calls, on a
\* connection that stays up and a device that only answers.
ClientNext ==
    \/ Caller(Calls)
    \/ LoopRead
    \/ LoopSelect
    \/ LoopDeliver
    \/ LoopNotify
    \/ ObserverReceive

ClientSpec == Init /\ [][ClientNext]_vars

\* The Go scheduler runs every goroutine that can take a step: the read loop
\* and the goroutines of connect do not stop while a step of theirs is
\* possible. Nothing makes the client issue a call or the connection die.
FairSpec == Spec /\ WF_vars(ReceiveLoop) /\ WF_vars(Supervisor)

(* ------------------------------ codec check ---------------------------- *)

\* The first four bytes under test: the status marker, and the marker with
\* each one of its bytes wrong.
ProbePrefixes ==
    {<<170, 187, 3, 17>>, <<171, 187, 3, 17>>, <<170, 186, 3, 17>>,
     <<170, 187, 4, 17>>, <<170, 187, 3, 16>>, <<170, 187, 3, 1>>}

\* How far, in uint8, the last byte under test lies above the one before
\* it: the checksum constant 0x16, its neighbours, its negative, and others.
ProbeDeltas == {0, 1, 21, 22, 23, 150, 234, 255}

\* The frames under test: after each prefix, every value of byte 4 and the
\* values of byte 5 that lie a ProbeDeltas step above it.
ProbeFrames ==
    {p \o <<x, (x + d) % (2 ^ 8)>> : p \in ProbePrefixes, x \in Byte, d \in ProbeDeltas}

CodecInit ==
    /\ SystemInit
    /\ probe \in ProbeFrames
    /\ decoded = NotDecoded
    /\ CtxStart
    /\ DlStart

\* The frame is decoded, by extractInput and by the context variant's
\* ExtractInput.
CodecDecode ==
    /\ decoded = NotDecoded
    /\ decoded' = [main |-> extractInput(probe), ctx |-> ExtractInput(probe)]
    /\ UNCHANGED probe
    /\ UNCHANGED sysVars
    /\ UNCHANGED ctxVars
    /\ UNCHANGED dlVars

CodecSpec == CodecInit /\ [][CodecDecode]_vars

(* ------------------- the context variant (part_000) -------------------- *)

\* A nil receiverFunc was called: the panic has ended the process, and no
\* goroutine of it takes another step.
CtxAlive == recvPc # "panicked"

\* The commands the client of the context variant sends: one the device
\* answers and one it does not.
CtxCommands == {GET_CURRENT_INPUT, MUTE_BUZZER}

\* NewTesmartSwitch up to the return of connect: the dial, the fields, the
\* context, and the two goroutines; or the dial error, which is returned.
CtxConnect ==
    /\ newPc = "connect"
    /\ \E ok \in BOOLEAN :
         IF ok
         THEN /\ ctxSock' = [status |-> "open", inbound |-> <<>>]
              /\ ctxT' = [ctxT EXCEPT !.conn = 1]
              /\ recvPc' = "select"
              /\ pingPc' = "ping"
              /\ newPc' = "setReceiver"
         ELSE /\ newPc' = "failed"
              /\ UNCHANGED <<ctxSock, ctxT, recvPc, pingPc>>
    /\ UNCHANGED <<recvFrame, afterCancel, ctxSends>>
    /\ UNCHANGED ctxRest

\* NewTesmartSwitch, t.receiverFunc = receiverFunc; return &t, nil
CtxSetReceiver ==
    /\ CtxAlive
    /\ newPc = "setReceiver"
    /\ ctxT' = [ctxT EXCEPT !.receiverFunc = "set"]
    /\ newPc' = "returned"
    /\ UNCHANGED <<ctxSock, recvPc, recvFrame, pingPc, afterCancel, ctxSends>>
    /\ UNCHANGED ctxRest

\* send, called on the switch NewTesmartSwitch returned: the command goes
\* out when the socket is up (and the device may answer it), else the write
\* error is returned.
CtxSend ==
    /\ CtxAlive
    /\ newPc = "returned"
    /\ ctxSends < MaxCalls
    /\ ctxSends' = ctxSends + 1
    /\ \E cmd \in CtxCommands :
         \E reply \in (IF ctxSock.status = "open" THEN DeviceReplies(cmd) ELSE {})
                        \cup {<<>>} :
           ctxSock' = IF reply = <<>> THEN ctxSock
                      ELSE [ctxSock EXCEPT !.inbound = Append(@, reply)]
    /\ UNCHANGED <<ctxT, newPc, recvPc, recvFrame, pingPc, afterCancel>>
    /\ UNCHANGED ctxRest

\* A mutant of CtxLoopSelect: the loop does not look at the context.
CtxLoopSelect_IgnoresDone ==
    /\ CtxAlive
    /\ recvPc = "select"
    /\ recvPc' = "read"
    /\ UNCHANGED <<ctxT, ctxSock, newPc, recvFrame, pingPc, afterCancel, ctxSends>>
    /\ UNCHANGED ctxRest

\* receiveLoop, the head of an iteration: select on connectionCtx.Done();
\* when it is closed the loop returns (and the deferred Close runs), else it
\* goes on to read.
CtxLoopSelect ==
    /\ CtxAlive
    /\ recvPc = "select"
    /\ IF ctxT.done
       THEN /\ recvPc' = "returned"
            /\ ctxSock' = [ctxSock EXCEPT !.status = "closed"]
       ELSE /\ recvPc' = "read"
            /\ UNCHANGED ctxSock
    /\ UNCHANGED <<ctxT, newPc, recvFrame, pingPc, afterCancel, ctxSends>>
    /\ UNCHANGED ctxRest

\* receiveLoop, Read returns a frame.
CtxLoopRead ==
    /\ CtxAlive
    /\ recvPc = "read"
    /\ ctxSock.status \in {"open", "peerClosed"}
    /\ ctxSock.inbound # <<>>
    /\ recvFrame' = Head(ctxSock.inbound)
    /\ ctxSock' = [ctxSock EXCEPT !.inbound = Tail(@)]
    /\ recvPc' = "call"
    /\ UNCHANGED <<ctxT, newPc, pingPc, afterCancel, ctxSends>>
    /\ UNCHANGED ctxRest

\* receiveLoop, Read returns the timeout of the 200 ms deadline:
\* continue ReadLoop.
CtxLoopReadTimeout ==
    /\ CtxAlive
    /\ recvPc = "read"
    /\ ctxSock.status = "open"
    /\ ctxSock.inbound = <<>>
    /\ recvPc' = "select"
    /\ UNCHANGED <<ctxT, ctxSock, newPc, recvFrame, pingPc, afterCancel, ctxSends>>
    /\ UNCHANGED ctxRest

\* receiveLoop, Read returns an error that is no timeout, or EOF with
\* nothing read: the loop returns, and the deferred Close runs.
CtxLoopReadEnd ==
    /\ CtxAlive
    /\ recvPc = "read"
    /\ \/ ctxSock.status \in {"reset", "closed"}
       \/ ctxSock.status = "peerClosed" /\ ctxSock.inbound = <<>>
    /\ recvPc' = "returned"
    /\ ctxSock' = [ctxSock EXCEPT !.status = "closed"]
    /\ UNCHANGED <<ctxT, newPc, recvFrame, pingPc, afterCancel, ctxSends>>
    /\ UNCHANGED ctxRest

\* receiveLoop, t.receiverFunc(response): calling a nil func panics.
CtxLoopCall ==
    /\ CtxAlive
    /\ recvPc = "call"
    /\ IF ctxT.receiverFunc = "nil"
       THEN /\ recvPc' = "panicked"
            /\ UNCHANGED afterCancel
       ELSE /\ recvPc' = "select"
            /\ afterCancel' = IF ctxT.done THEN afterCancel + 1 ELSE afterCancel
    /\ recvFrame' = <<>>
    /\ UNCHANGED <<ctxT, ctxSock, newPc, pingPc, ctxSends>>
    /\ UNCHANGED ctxRest

\* checkConnectionLoop, one ping: on success the loop goes round, on
\* failure it returns into its deferred function.
CtxPing ==
    /\ CtxAlive
    /\ pingPc = "ping"
    /\ \E ok \in BOOLEAN : pingPc' = IF ok THEN "ping" ELSE "cancel"
    /\ UNCHANGED <<ctxT, ctxSock, newPc, recvPc, recvFrame, afterCancel, ctxSends>>
    /\ UNCHANGED ctxRest

\* checkConnectionLoop, deferred: t.cancelFunc()
CtxPingCancel ==
    /\ CtxAlive
    /\ pingPc = "cancel"
    /\ ctxT' = [ctxT EXCEPT !.done = TRUE]
    /\ pingPc' = "close"
    /\ UNCHANGED <<ctxSock, newPc, recvPc, recvFrame, afterCancel, ctxSends>>
    /\ UNCHANGED ctxRest

\* checkConnectionLoop, deferred: t.conn.Close()
CtxPingClose ==
    /\ CtxAlive
    /\ pingPc = "close"
    /\ ctxSock' = [ctxSock EXCEPT !.status = "closed"]
    /\ pingPc' = "returned"
    /\ UNCHANGED <<ctxT, newPc, recvPc, recvFrame, afterCancel, ctxSends>>
    /\ UNCHANGED ctxRest

\* The device sends a frame nobody asked for.
CtxDevicePush ==
    /\ CtxAlive
    /\ ctxSock.status = "open"
    /\ Len(ctxSock.inbound) <= MaxPush
    /\ \E b \in PushFrames : ctxSock' = [ctxSock EXCEPT !.inbound = Append(@, b)]
    /\ UNCHANGED <<ctxT, newPc, recvPc, recvFrame, pingPc, afterCancel, ctxSends>>
    /\ UNCHANGED ctxRest

\* The device closes the connection (reads end in EOF), or the connection
\* breaks (reads fail).
CtxFault ==
    /\ CtxAlive
    /\ ctxSock.status = "open"
    /\ \E st \in {"peerClosed", "reset"} : ctxSock' = [ctxSock EXCEPT !.status = st]
    /\ UNCHANGED <<ctxT, newPc, recvPc, recvFrame, pingPc, afterCancel, ctxSends>>
    /\ UNCHANGED ctxRest

CtxReceiveLoop ==
    \/ CtxLoopSelect
    \/ CtxLoopRead
    \/ CtxLoopReadTimeout
    \/ CtxLoopReadEnd
    \/ CtxLoopCall

CtxNext ==
    \/ CtxConnect
    \/ CtxSetReceiver
    \/ CtxSend
    \/ CtxReceiveLoop
    \/ CtxPing
    \/ CtxPingCancel
    \/ CtxPingClose
    \/ CtxDevicePush
    \/ CtxFault

CtxSpec == Init /\ [][CtxNext]_vars

\* The scheduler runs the read loop while it has a step to take; the read
\* itself ends with the deadline at the latest.
CtxFairSpec == CtxSpec /\ WF_vars(CtxReceiveLoop)

(* ----------------- the read-deadline variant (part_001) ---------------- *)

\* t.responses = make(chan []byte, 2)
DlResponsesCap == 2

\* receiveLoop of the read-deadline variant, Read returns a frame.
DlLoopRead ==
    /\ dlLoopPc = "read"
    /\ dlSock[dlT.conn].inbound # <<>>
    /\ dlLoopFrame' = Head(dlSock[dlT.conn].inbound)
    /\ dlSock' = [dlSock EXCEPT ![dlT.conn].inbound = Tail(@)]
    /\ dlLoopPc' = "deliver"
    /\ UNCHANGED <<dlT, dlResponsesQ, dlErrQ, dlSupPc, dlCallerPc, dlCallCh, dlCalls>>
    /\ UNCHANGED dlRest

\* What Read returns when no frame is there: on an idle socket that is up,
\* the timeout of the 10 s deadline; after the device closed, EOF; on a
\* broken connection, another error.
DlReadError(status) ==
    CASE status = "open" -> "timeout"
      [] status = "peerClosed" -> "EOF"
      [] OTHER -> "error"

\* receiveLoop, Read returns an error, the timeout included: it is logged,
\* then t.err <- err; break.
DlLoopReadError ==
    /\ dlLoopPc = "read"
    /\ dlSock[dlT.conn].inbound = <<>>
    /\ ~Full(dlErrQ[dlT.err])
    /\ dlErrQ' = [dlErrQ EXCEPT ![dlT.err] =
                      Append(@, DlReadError(dlSock[dlT.conn].status))]
    /\ dlLoopPc' = "done"
    /\ UNCHANGED <<dlT, dlSock, dlResponsesQ, dlLoopFrame, dlSupPc, dlCallerPc,
                   dlCallCh, dlCalls>>
    /\ UNCHANGED dlRest

\* receiveLoop, t.responses <- response, once the channel has room.
DlLoopDeliver ==
    /\ dlLoopPc = "deliver"
    /\ Len(dlResponsesQ[dlT.responses]) < DlResponsesCap
    /\ dlResponsesQ' = [dlResponsesQ EXCEPT ![dlT.responses] = Append(@, dlLoopFrame)]
    /\ dlLoopFrame' = <<>>
    /\ dlLoopPc' = "read"
    /\ UNCHANGED <<dlT, dlSock, dlErrQ, dlSupPc, dlCallerPc, dlCallCh, dlCalls>>
    /\ UNCHANGED dlRest

\* The goroutine of connect: err := <-t.err; on EOF it returns, on any
\* other error it goes on to t.connect(host).
DlWatchError ==
    /\ dlSupPc = "watch"
    /\ dlErrQ[dlT.err] # <<>>
    /\ dlErrQ' = [dlErrQ EXCEPT ![dlT.err] = Tail(@)]
    /\ dlSupPc' = IF Head(dlErrQ[dlT.err]) = "EOF" THEN "returned" ELSE "dial"
    /\ UNCHANGED <<dlT, dlSock, dlResponsesQ, dlLoopPc, dlLoopFrame, dlCallerPc,
                   dlCallCh, dlCalls>>
    /\ UNCHANGED dlRest

\* The socket the next successful dial of the variant makes.
DlNextSock == 1 + Cardinality({s \in Gens : dlSock[s].status # "none"})

\* connect, net.Dial: a new socket (the one before is not closed), or an
\* error that is logged and dropped. (No more than MaxConn dials succeed.)
DlConnectDial ==
    /\ dlSupPc = "dial"
    /\ \E ok \in {b \in BOOLEAN : b => DlNextSock <= MaxConn} :
         IF ok
         THEN /\ dlSock' = [dlSock EXCEPT ![DlNextSock] =
                                [status |-> "open", inbound |-> <<>>]]
              /\ dlSupPc' = "assignConn"
         ELSE /\ dlSock' = dlSock
              /\ dlSupPc' = "dialFailed"
    /\ UNCHANGED <<dlT, dlResponsesQ, dlErrQ, dlLoopPc, dlLoopFrame, dlCallerPc,
                   dlCallCh, dlCalls>>
    /\ UNCHANGED dlRest

\* connect, t.conn = conn
DlConnectAssignConn ==
    /\ dlSupPc = "assignConn"
    /\ dlT' = [dlT EXCEPT !.conn = DlNextSock - 1]
    /\ dlSupPc' = "makeChans"
    /\ UNCHANGED <<dlSock, dlResponsesQ, dlErrQ, dlLoopPc, dlLoopFrame, dlCallerPc,
                   dlCallCh, dlCalls>>
    /\ UNCHANGED dlRest

\* connect, t.responses = make(...); t.err = make(...); go func(); go
\* t.receiveLoop()
DlConnectMakeChans ==
    /\ dlSupPc = "makeChans"
    /\ dlT' = [dlT EXCEPT !.responses = DlNextSock - 1, !.err = DlNextSock - 1]
    /\ dlLoopPc' = "read"
    /\ dlSupPc' = "watch"
    /\ UNCHANGED <<dlSock, dlResponsesQ, dlErrQ, dlLoopFrame, dlCallerPc, dlCallCh,
                   dlCalls>>
    /\ UNCHANGED dlRest

\* GetCurrentInput of the variant, t.send(GET_CURRENT_INPUT): the write,
\* whose error is dropped; the device may answer.
DlSend ==
    /\ dlCallerPc = "idle"
    /\ dlCalls < MaxCalls
    /\ dlCalls' = dlCalls + 1
    /\ dlCallerPc' = "await"
    /\ \E reply \in (IF dlSock[dlT.conn].status = "open"
                    THEN DeviceReplies(GET_CURRENT_INPUT) ELSE {}) \cup {<<>>} :
         dlSock' = IF reply = <<>> THEN dlSock
                   ELSE [dlSock EXCEPT ![dlT.conn].inbound = Append(@, reply)]
    /\ UNCHANGED <<dlT, dlResponsesQ, dlErrQ, dlLoopPc, dlLoopFrame, dlSupPc, dlCallCh>>
    /\ UNCHANGED dlRest

\* extractInput(<-t.responses): the receive parks on the channel t.responses
\* names now, and returns with the frame sent on it.
DlAwait ==
    /\ \/ dlCallerPc = "await" /\ dlCallCh' = dlT.responses
       \/ dlCallerPc = "awaitBlocked" /\ dlCallCh' = dlCallCh
    /\ IF dlResponsesQ[dlCallCh'] # <<>>
       THEN /\ dlResponsesQ' = [dlResponsesQ EXCEPT ![dlCallCh'] = Tail(@)]
            /\ dlCallerPc' = "idle"
       ELSE /\ dlCallerPc = "await"
            /\ dlCallerPc' = "awaitBlocked"
            /\ UNCHANGED dlResponsesQ
    /\ UNCHANGED <<dlT, dlSock, dlErrQ, dlLoopPc, dlLoopFrame, dlSupPc, dlCalls>>
    /\ UNCHANGED dlRest

\* The device sends a frame nobody asked for.
DlDevicePush ==
    /\ \E s \in Gens, b \in PushFrames :
         /\ dlSock[s].status = "open"
         /\ Len(dlSock[s].inbound) < MaxPush
         /\ dlSock' = [dlSock EXCEPT ![s].inbound = Append(@, b)]
    /\ UNCHANGED <<dlT, dlResponsesQ, dlErrQ, dlLoopPc, dlLoopFrame, dlSupPc,
                   dlCallerPc, dlCallCh, dlCalls>>
    /\ UNCHANGED dlRest

\* The device closes the connection (reads end in EOF), or the connection
\* breaks (reads fail).
DlFault ==
    /\ \E s \in Gens, st \in {"peerClosed", "reset"} :
         /\ dlSock[s].status = "open"
         /\ dlSock' = [dlSock EXCEPT ![s].status = st]
    /\ UNCHANGED <<dlT, dlResponsesQ, dlErrQ, dlLoopPc, dlLoopFrame, dlSupPc,
                   dlCallerPc, dlCallCh, dlCalls>>
    /\ UNCHANGED dlRest

DlNext ==
    \/ DlLoopRead
    \/ DlLoopReadError
    \/ DlLoopDeliver
    \/ DlWatchError
    \/ DlConnectDial
    \/ DlConnectAssignConn
    \/ DlConnectMakeChans
    \/ DlSend
    \/ DlAwait
    \/ DlDevicePush
    \/ DlFault

DlSpec == Init /\ [][DlNext]_vars

(* -------------------------------- claims ------------------------------- *)

\* The caller is parked on a receive that no goroutine will ever serve: the
\* channel is empty and is no longer the one t.responses names, so the only
\* sender there is, the read loop, sends elsewhere.
ParkedOnReplacedChannel ==
    /\ callerPc = "awaitBlocked"
    /\ responsesQ[callCh] = <<>>
    /\ callCh # t.responses

\* C1: a call that awaits its reply does not stay blocked once its
\* connection has faulted and been replaced: it fails and returns. Stated as
\* the absence of a caller left parked on the receive of a connection that
\* is gone.
C1_AwaitFailsOnFault == ~ParkedOnReplacedChannel

\* One step of the read loop out of its select.
SelectStep == loopPc = "select" /\ loopPc' # "select"

\* C2: the dispatch rule of the read loop. A frame read while the marker is
\* set goes to responses and takes the marker with it; a frame read while it
\* is not set goes to Responses; and responses gets a frame in no other way.
C2_DispatchRule ==
    [][/\ SelectStep =>
            IF swQ[t.sw] # <<>>
            THEN loopPc' = "toResponses" /\ swQ'[t.sw] = Tail(swQ[t.sw])
            ELSE loopPc' = "toObserver" /\ swQ' = swQ
       /\ (loopPc = "toResponses" /\ loopPc' # "toResponses") =>
            /\ responsesQ'[t.responses] = Append(responsesQ[t.responses], loopFrame)
            /\ ResponsesQ' = ResponsesQ
       /\ (loopPc = "toObserver" /\ loopPc' # "toObserver") =>
            /\ ResponsesQ'[t.Responses] = Append(ResponsesQ[t.Responses], loopFrame)
            /\ responsesQ' = responsesQ
       /\ \A g \in Gens :
            Len(responsesQ'[g]) > Len(responsesQ[g]) => loopPc = "toResponses"
      ]_vars

\* C2's case: a frame has been handed to the waiter and the marker is gone,
\* and another has been handed to the observer.
C2_Witness ==
    /\ responsesQ[t.responses] # <<>>
    /\ swQ[t.sw] = <<>>
    /\ ResponsesQ[t.Responses] # <<>>

Newest == NextSock - 1

\* The read loop has ended on a read error.
LoopFaulted == loopPc = "done"

\* connect has run to its end after a fault: t.conn and the channels are
\* the new ones, the socket before is closed, a read loop is reading.
Reconnected ==
    /\ supPc = "watch"
    /\ loopPc # "done"
    /\ t.conn > 1

\* C4: reconnect. The supervisor is only ever watching a connection whose
\* fields all name the socket dialed last, with every socket before it
\* closed; a write made then, on a socket that is up, puts the command on
\* that socket and returns no error; and (with the goroutines scheduled
\* fairly) a read loop that ended on a read error is followed by a
\* finished reconnect, unless the dial fails.
C4_Reconnect ==
    /\ [](supPc = "watch" =>
            /\ t = [conn |-> Newest, responses |-> Newest, Responses |-> Newest,
                    err |-> Newest, sw |-> Newest]
            /\ \A s \in 1 .. (Newest - 1) : sock[s].status = "closed"
            /\ sock[Newest].status \in {"open", "broken"}
            /\ (loopPc = "done" => errQ[t.err] # <<>>))
    /\ [][(/\ callerPc = "write"
           /\ callerPc' # "write"
           /\ supPc = "watch"
           /\ sock[Newest].status = "open") =>
              /\ callerPc' = "marker"
              /\ wire' = [bytes |-> Command(call.op, call.arg), sock |-> Newest,
                          id |-> call.id, watching |-> TRUE]]_vars
    /\ (LoopFaulted ~> (Reconnected \/ supPc = "dialFailed"))

\* C4's case: after a fault the second socket is current, the first is
\* closed, the read loop reads again, and a call sent on the new socket
\* once connect had finished has returned with the reply to it.
C4_Witness ==
    /\ Reconnected
    /\ sock[1].status = "closed"
    /\ loopPc = "read"
    /\ wire.sock = 2
    /\ wire.watching
    /\ result.id = wire.id
    /\ result.frame.re = wire.id
    /\ result.err = "nil"

\* C5: a dial that fails during a reconnect is retried: the supervisor
\* still has a step to take, another dial, after it.
C5_FailedDialRetried == supPc = "dialFailed" => ENABLED Supervisor

\* The ranges the parameter checks are about.
InRange(op, input) ==
    CASE op = "SwitchInput" -> input \in 1 .. 16
      [] op = "SetLedTimeout" -> input \in 0 .. 30
      [] OTHER -> TRUE

\* C6: range validation before any I/O. A SwitchInput or SetLedTimeout call
\* whose argument is out of range has returned the validation error, and no
\* frame of it was written.
C6_RangeValidated ==
    (call.id > 0 /\ ~InRange(call.op, call.arg)) =>
        /\ callerPc = "idle"
        /\ result.id = call.id
        /\ result.err = ValidationError(call.op)
        /\ wire.id # call.id

\* The write of the call in progress has gone through.
Written == callerPc \in {"marker", "markerBlocked"}

C8_LedTimeoutFrame ==
    (call.op = "SetLedTimeout" /\ call.arg \in 0 .. 30 /\ Written) =>
        /\ wire.id = call.id
        /\ wire.bytes = <<170, 187, 3, 3, call.arg, 238>>

\* C9: fire-and-forget. A MuteBuzzer, UnmuteBuzzer, EnableAutoInputDetection
\* or DisableAutoInputDetection call whose write has completed is not left
\* waiting for an inbound frame: it is never parked on the marker channel,
\* which only a frame read by the read loop empties.
C9_FireAndForgetReturns ==
    ~(call.op \in FireAndForgetOps /\ callerPc = "markerBlocked")

\* C10: decode acceptance. A 6-byte frame is accepted exactly when bytes
\* 0..3 are AA BB 03 11 and byte 5 is byte 4 plus 0x16 in 8 bits; accepted,
\* it decodes to byte 4 plus one; rejected, to the invalid-response error
\* and no input number. The same for the context variant's ExtractInput.
C10_DecodeAcceptance ==
    decoded # NotDecoded =>
        LET accepted == /\ SubSeq(probe, 1, 4) = OUTPUT
                        /\ probe[6] = (probe[5] + 22) % 256
            expected == IF accepted
                        THEN [value |-> probe[5] + 1, err |-> "nil"]
                        ELSE [value |-> 0, err |-> "invalid response"]
        IN decoded.main = expected /\ decoded.ctx = expected

\* C10's case: a frame whose checksum relation holds only in 8 bits (byte 5
\* is below byte 4) has been decoded, and accepted.
C10_Witness ==
    /\ decoded # NotDecoded
    /\ probe[6] < probe[5]
    /\ decoded.main.err = "nil"
    /\ decoded.main.value = probe[5] + 1

\* C11: cancellation in the context variant. Once connectionCtx is
\* cancelled, the read loop leaves the head of its next iteration by
\* returning; until then it hands receiverFunc at most one frame, the one
\* whose read was in progress; no connection is dialed any more; and (with
\* the loop scheduled fairly) the loop does come to its end: it returns,
\* unless handing over that one frame panicked on an unset callback.
C11_Cancellation ==
    /\ [][(ctxT.done /\ recvPc = "select" /\ recvPc' # "select") =>
              recvPc' = "returned"]_vars
    /\ [](afterCancel <= 1)
    /\ [][ctxT.done =>
              /\ ctxT'.conn = ctxT.conn
              /\ ~(newPc = "connect" /\ newPc' # "connect")
              /\ (ctxSock'.status = "open" => ctxSock.status = "open")]_vars
    /\ (ctxT.done ~> recvPc \in {"returned", "panicked"})

\* C11's case: the cancel came while a read was in progress, the frame of
\* that read was handed over, another frame was still waiting on the socket,
\* and the loop has returned.
C11_Witness ==
    /\ ctxT.done
    /\ afterCancel = 1
    /\ recvPc = "returned"
    /\ ctxSock.inbound # <<>>

\* The call in progress is one that awaits a reply.
AwaitingCall == call.op \in AwaitingOps

\* C12: the marker is set before the command is written. When the command
\* of a call that awaits a reply has reached the socket the marker is
\* there already, and so the reply to a command never ends up with the
\* observer, on Responses.
C12_MarkerBeforeWrite ==
    /\ (AwaitingCall /\ callerPc = "marker" /\ wire.id = call.id) => swQ[t.sw] # <<>>
    /\ \A g \in Gens : \A i \in 1 .. Len(ResponsesQ[g]) : ResponsesQ[g][i].re = 0

\* C13: the marker means that a caller is awaiting the next frame. While
\* it is set, a SwitchInput, SetLedTimeout or GetCurrentInput call is
\* between its write and its receive; and no frame the device sent unasked
\* sits in responses while no caller is awaiting.
C13_MarkerMeansAwaiting ==
    /\ swQ[t.sw] # <<>> =>
           (AwaitingCall /\ callerPc \in {"marker", "await", "awaitBlocked"})
    /\ (\E i \in 1 .. Len(responsesQ[t.responses]) : responsesQ[t.responses][i].re = 0) =>
           (AwaitingCall /\ callerPc \in {"await", "awaitBlocked"})

\* The read loop of the read-deadline variant is in a Read on a socket that
\* is up and idle: the deadline is all that can end the Read.
DlIdleRead ==
    /\ dlLoopPc = "read"
    /\ dlSock[dlT.conn].status = "open"
    /\ dlSock[dlT.conn].inbound = <<>>

\* The same for the read loop of the context variant.
CtxIdleRead ==
    /\ recvPc = "read"
    /\ ctxSock.status = "open"
    /\ ctxSock.inbound = <<>>

\* C14: a read-deadline timeout is no fault. In both variants a Read that
\* times out on an idle socket leaves the read loop running; in the
\* read-deadline variant it sends nothing on the err channel, so that no
\* timeout is ever what the goroutine of connect dials again for.
C14_TimeoutIsNoFault ==
    /\ [][DlIdleRead => (dlLoopPc' = "read" /\ dlErrQ' = dlErrQ)]_vars
    /\ [][CtxIdleRead => recvPc' \in {"read", "select"}]_vars
    /\ [](\A g \in Gens : \A i \in 1 .. Len(dlErrQ[g]) : dlErrQ[g][i] # "timeout")

\* The step in which t.conn.Write fails and send returns the error.
WriteFails == callerPc = "write" /\ call'.sendErr = "write error"

\* The fault is in the hands of the goroutine of connect: an error is
\* waiting on the err channel, or the goroutine has taken one up and is
\* closing the socket, or connect is dialing and replacing the connection.
FaultTakenUp ==
    \/ errQ[t.err] # <<>>
    \/ supPc \in {"close", "dial", "assignConn", "makeResponses", "makeErrSw"}

\* C15: a write error is a connection fault. When the write in send fails,
\* the fault is handed on as a read error is, so that the socket is closed
\* and a reconnect started (unless that is under way already); and the
\* command that failed is not written again.
C15_WriteErrorTearsDown ==
    /\ [][WriteFails => FaultTakenUp']_vars
    /\ [](call.sendErr = "write error" => wire.id # call.id)

\* C16: no leak across reconnects. No marker is put into a sw channel made
\* after the socket its command was written on, and no reply is put into a
\* responses or Responses channel made after the socket its command was
\* written on.
C16_NoLeakAcrossReconnect ==
    [][\A g \in Gens :
         /\ (Len(swQ'[g]) > Len(swQ[g]) /\ wire.sock # 0) => wire.sock >= g
         /\ (/\ \/ Len(responsesQ'[g]) > Len(responsesQ[g])
                 \/ Len(ResponsesQ'[g]) > Len(ResponsesQ[g])
              /\ loopFrame.re # 0
              /\ loopFrame.re = wire.id
              /\ wire.sock # 0) => wire.sock >= g
      ]_vars

\* The sockets the client holds open: dialed and not closed, whether the
\* device is still behind them or not.
OpenSockets == {s \in Gens : sock[s].status \in {"open", "broken"}}

\* C17: exactly one connection is current. At most one socket is open;
\* whenever connect dials, every socket dialed before is closed; and from
\* the moment the fault is taken up until the new read loop is started, the
\* read loop before has ended.
C17_OneConnection ==
    /\ Cardinality(OpenSockets) <= 1
    /\ supPc = "dial" => OpenSockets = {}
    /\ supPc \in {"close", "dial", "assignConn", "makeResponses", "makeErrSw",
                  "dialFailed"} => loopPc = "done"

\* C17's case: after a fault connect has dialed the second socket, the
\* first is closed and the new read loop is running.
C17_Witness ==
    /\ sock[1].status = "closed"
    /\ sock[2].status = "open"
    /\ supPc = "watch"
    /\ loopPc \in {"read", "select", "toResponses", "toObserver"}

\* C18: a write error ends the call. A SwitchInput, SetLedTimeout or
\* GetCurrentInput call whose write failed does not go on to wait for a
\* frame: it returns the error.
C18_WriteErrorReturned ==
    /\ (AwaitingCall /\ call.sendErr = "write error") =>
           callerPc \notin {"await", "awaitBlocked"}
    /\ (result.op \in AwaitingOps /\ call.id = result.id
          /\ call.sendErr = "write error") => result.err = "write error"

\* C19: delivery does not block the read loop. Having read a frame, the
\* loop is back at reading the socket (with the goroutines scheduled
\* fairly), whether anybody takes frames from Responses and responses or
\* not.
C19_LoopNotBlocked ==
    (loopPc \in {"select", "toResponses", "toObserver"}) ~> (loopPc = "read")

\* C20: in the context variant receiverFunc is installed before it is
\* used: the read loop never comes to call it while it is nil.
C20_ReceiverInstalled ==
    /\ recvPc = "call" => ctxT.receiverFunc = "set"
    /\ recvPc # "panicked"

====
